---- MODULE Spec2Model ----
(***************************************************************************)
(* Model of the sudoku library (src/src/lib.rs): Sudoku::from_str parses a *)
(* text into a 9x9 table of u8, Sudoku::valid checks rows, columns and 3x3 *)
(* blocks, Display::fmt renders the table as boxed text.                   *)
(*                                                                         *)
(* A character is its Unicode scalar value, a string is a sequence of      *)
(* characters, and a string's len() is the number of bytes of its UTF-8    *)
(* encoding.  The table is indexed from 0 as in the source.                *)
(***************************************************************************)
EXTENDS Integers, Sequences, FiniteSets, TLC

VARIABLES
    s,              \* the text handed to from_str
    pc,             \* "start" | "parsed" | "failed"
    res,            \* what from_str returned
    table,          \* Sudoku.table
    debug,          \* whether the build that runs valid() checks integer overflow
    stage,          \* position inside valid(): "idle" | "rows" | "cols" | "blocks" | "end" | "done"
    row,            \* loop variable of the row loop (line 25)
    col,            \* loop variable of the column loop (line 36)
    block_row,      \* loop variables of the block loops (lines 48, 49)
    block_col,
    examined,       \* the groups whose cells valid() has read, in order
    ret,            \* outcome of valid(): "none" | "true" | "false" | "panic"
    out             \* the text written by Display::fmt (<<>> before the call)

vars == <<s, pc, res, table, debug, stage, row, col, block_row, block_col,
          examined, ret, out>>

---------------------------------------------------------------------------
(* Program constants *)

N == 9                  \* side of the table
B == 3                  \* side of a block
Cells == 81             \* required len() of the input
Radix == 10             \* to_digit(10)
U8Max == 255            \* u8::MAX
NL == 10                \* '\n'
SP == 32                \* ' '
BAR == 124              \* '|'
DASH == 45              \* '-'
PLUS == 43              \* '+'
Zero == 48              \* '0'
None == -1              \* Option::None of to_digit, Err of try_into

Idx == 0 .. (N - 1)

---------------------------------------------------------------------------
(* Bounds of the checked inputs *)

Slack == 3              \* inputs have Cells - Slack .. Cells + Slack characters
MaxVal == 10            \* cell values of the checked tables range over 0 .. MaxVal

---------------------------------------------------------------------------
(* Strings *)

\* bytes of the UTF-8 encoding of one character
Utf8Len(c) ==
    IF c < 128 THEN 1 ELSE IF c < 2048 THEN 2 ELSE IF c < 65536 THEN 3 ELSE 4

\* bytes of the characters lo .. hi of a string (the range is halved, the sum
\* is the same)
RECURSIVE SumLen(_, _, _)
SumLen(str, lo, hi) ==
    IF lo > hi THEN 0
    ELSE IF lo = hi THEN Utf8Len(str[lo])
    ELSE LET mid == (lo + hi) \div 2
         IN  SumLen(str, lo, mid) + SumLen(str, mid + 1, hi)

\* str::len(): the length in bytes
StrLen(str) == SumLen(str, 1, Len(str))

\* s.replace("\n", "")
IsKept(c) == c # NL
ReplaceMutCR(str) == SelectSeq(str, LAMBDA c : c # NL /\ c # 13)
Replace(str) == SelectSeq(str, IsKept)

\* char::to_digit(10)
ToDigitMutNoZero(c) == IF c > Zero /\ c < Zero + Radix THEN c - Zero ELSE None
ToDigit(c) == IF c >= Zero /\ c < Zero + Radix THEN c - Zero ELSE None

\* u8::try_from(u32)
TryIntoU8(v) == IF v <= U8Max THEN v ELSE None

\* the check of line 71
LenOkMutAtLeast(input) == StrLen(input) >= Cells
LenOk(input) == StrLen(input) = Cells

---------------------------------------------------------------------------
(* Sudoku::from_str *)

ZeroTable == [r \in Idx |-> [c \in Idx |-> 0]]

Ok(t) == [kind |-> "Ok", table |-> t, details |-> <<>>]
Err(d) == [kind |-> "Err", table |-> ZeroTable, details |-> d]
Panic(d) == [kind |-> "panic", table |-> ZeroTable, details |-> d]

WrongLength == <<"Table needs to have 81 cells.">>
InvalidCharacter(c, r, k) == <<"Invalid character ", c, " at ", r, ",", k, ".">>
ConversionError == <<"out of range integral type conversion attempted">>

RowOf(i) == i \div N
ColOf(i) == i % N

\* one pass of the loop body (lines 76-82), on the character of index i
ParseChar(input, i, t) ==
    LET c == input[i + 1]
        r == RowOf(i)
        k == ColOf(i)
        val == ToDigit(c)
    IN  IF val = None THEN Err(InvalidCharacter(c, r, k))
        ELSE IF TryIntoU8(val) = None THEN Err(ConversionError)
        ELSE IF r >= N \/ k >= N THEN Panic(<<"index out of bounds">>)
        ELSE Ok([t EXCEPT ![r][k] = TryIntoU8(val)])

\* the passes lo .. hi - 1 of the loop of lines 75-83 in order, ending at the
\* first pass that returns (the range is halved, the order is kept)
RECURSIVE ParseChars(_, _, _, _)
ParseChars(input, lo, hi, t) ==
    IF lo >= hi THEN Ok(t)
    ELSE IF hi = lo + 1 THEN ParseChar(input, lo, t)
    ELSE LET mid == (lo + hi) \div 2
             left == ParseChars(input, lo, mid, t)
         IN  IF left.kind # "Ok" THEN left
             ELSE ParseChars(input, mid, hi, left.table)

from_str(str) ==
    LET input == Replace(str)
    IN  IF ~LenOk(input) THEN Err(WrongLength)
        ELSE ParseChars(input, 0, Len(input), ZeroTable)

---------------------------------------------------------------------------
(* Sudoku::valid *)

\* the cells of a group, in the order the loops read them
RowCells(r) == [k \in 1 .. N |-> <<r, k - 1>>]
ColCells(c) == [k \in 1 .. N |-> <<k - 1, c>>]
BlockCellsMutNoScale(br, bc) ==
    [k \in 1 .. N |-> <<br * B + ((k - 1) \div B), bc + ((k - 1) % B)>>]
BlockCells(br, bc) ==
    [k \in 1 .. N |-> <<br * B + ((k - 1) \div B), bc * B + ((k - 1) % B)>>]

OverflowPanic == "panic: attempt to subtract with overflow"
BoundsPanic == "panic: index out of bounds"

\* (val - 1) as usize on a u8: the debug profile panics on underflow, the
\* release profile wraps
SubOne(val, dbg) ==
    IF val >= 1 THEN val - 1
    ELSE IF dbg THEN None
    ELSE (val - 1) % (U8Max + 1)

\* the inner loops (lines 27-30, 38-41, 51-56): counts after the cells from
\* index k on, or the panic that stops them
RECURSIVE Tally(_, _, _, _, _)
Tally(t, cells, k, counts, dbg) ==
    IF k > Len(cells) THEN [panic |-> "", counts |-> counts]
    ELSE LET val == t[cells[k][1]][cells[k][2]]
             j == SubOne(val, dbg)
         IN  IF j = None THEN [panic |-> OverflowPanic, counts |-> counts]
             ELSE IF j >= N THEN [panic |-> BoundsPanic, counts |-> counts]
             ELSE Tally(t, cells, k + 1, [counts EXCEPT ![j] = @ + 1], dbg)

\* counts.iter().any(|&count| count != 1)
AnyNotOne(counts) == \E j \in Idx : counts[j] # 1

\* one pass of an outer loop body: "pass", "false" or a panic
GroupOutcome(t, cells, dbg) ==
    LET r == Tally(t, cells, 1, [j \in Idx |-> 0], dbg)
    IN  IF r.panic # "" THEN r.panic
        ELSE IF AnyNotOne(r.counts) THEN "false"
        ELSE "pass"

---------------------------------------------------------------------------
(* Display::fmt *)

\* Display of a u8: its decimal digits
RECURSIVE Decimal(_)
Decimal(v) ==
    IF v < Radix THEN <<Zero + v>>
    ELSE Decimal(v \div Radix) \o <<Zero + (v % Radix)>>

\* "------+-------+------\n"
Separator ==
    <<DASH, DASH, DASH, DASH, DASH, DASH, PLUS,
      DASH, DASH, DASH, DASH, DASH, DASH, DASH, PLUS,
      DASH, DASH, DASH, DASH, DASH, DASH, NL>>

\* j % 3 == 0 && j != 0
AtBoundaryMutEvery(j) == j % B = 0
AtBoundary(j) == j % B = 0 /\ j # 0

\* the inner loop of lines 94-99, from column j on
RECURSIVE FmtCells(_, _)
FmtCells(rw, j) ==
    IF j >= N THEN <<>>
    ELSE (IF AtBoundary(j) THEN <<BAR, SP>> ELSE <<>>)
         \o Decimal(rw[j]) \o <<SP>> \o FmtCells(rw, j + 1)

\* the outer loop of lines 90-101, from row i on
RECURSIVE FmtRows(_, _)
FmtRows(t, i) ==
    IF i >= N THEN <<>>
    ELSE (IF AtBoundary(i) THEN Separator ELSE <<>>)
         \o FmtCells(t[i], 0) \o <<NL>> \o FmtRows(t, i + 1)

fmtMutColumnMajor(t) == FmtRows([r \in Idx |-> [c \in Idx |-> t[c][r]]], 0)
fmt(t) == FmtRows(t, 0)

---------------------------------------------------------------------------
(* The checked inputs *)

\* the solved table of test_validate_sudoku and the cyclic table of
\* test_invlid_blocks, row-major
Solved ==
    <<5,3,4,6,7,8,9,1,2,  6,7,2,1,9,5,3,4,8,  1,9,8,3,4,2,5,6,7,
      8,5,9,7,6,1,4,2,3,  4,2,6,8,5,3,7,9,1,  7,1,3,9,2,4,8,5,6,
      9,6,1,5,3,7,2,8,4,  2,8,7,4,1,9,6,3,5,  3,4,5,2,8,6,1,7,9>>

TableOf(digits) == [r \in Idx |-> [c \in Idx |-> digits[r * N + c + 1]]]

SolvedTable == TableOf(Solved)
CyclicTable == [r \in Idx |-> [c \in Idx |-> ((r + c) % N) + 1]]
Bases == {SolvedTable, CyclicTable}

SetCell(t, r, c, v) == [t EXCEPT ![r][c] = v]
SwapRows(t, a, b) == [t EXCEPT ![a] = t[b], ![b] = t[a]]
SwapCols(t, a, b) == [r \in Idx |-> [t[r] EXCEPT ![a] = t[r][b], ![b] = t[r][a]]]
SwapInRow(t, r, a, b) == [t EXCEPT ![r][a] = t[r][b], ![r][b] = t[r][a]]

Corners == {0, 4, 8}

\* tables one edit away from a base, with cell values up to maxv
TablesOne(maxv) ==
    UNION {
        {SwapRows(g, a, b) : a \in Idx, b \in Idx}
        \cup {SwapCols(g, a, b) : a \in Idx, b \in Idx}
        \cup {SwapInRow(g, r, a, b) : r \in Idx, a \in Idx, b \in Idx}
        \cup {SetCell(g, r, c, v) : r \in Idx, c \in Idx, v \in 0 .. maxv}
        : g \in Bases }

\* tables two edits away from a base
TablesTwo(maxv) ==
    UNION {
        {SetCell(SetCell(g, r, c, v), d, d, w) :
            r \in Idx, c \in Idx, v \in 0 .. maxv, d \in Corners, w \in {0, maxv}}
        : g \in Bases }

\* the digits of a table as text, a newline after each row but the last when nl
TextOf(t, nl) ==
    LET W == IF nl THEN N + 1 ELSE N
        L == IF nl THEN N * W - 1 ELSE N * W
    IN  [i \in 1 .. L |->
            IF (i - 1) % W = N THEN NL
            ELSE Zero + t[(i - 1) \div W][(i - 1) % W]]

\* the characters substituted into a text: '\n' '\t' '\r' ' ' '/' '0' '5' '9'
\* ':' 'a', and the 2-, 3- and 4-byte characters U+00E9, U+0664, U+20AC, U+1F600
Alphabet == {NL, 9, 13, SP, 47, 48, 53, 57, 58, 97, 233, 1636, 8364, 128512}
Second == {0, 120, 8364}

Lens == {0, 1} \cup ((Cells - Slack) .. (Cells + Slack))

Body(n) == [i \in 1 .. n |-> Zero + Solved[((i - 1) % Cells) + 1]]
Subst(t, p, c) == IF p = 0 \/ c = 0 \/ p > Len(t) THEN t ELSE [t EXCEPT ![p] = c]

\* newlines added to a text: none; one after every N-th character; one in
\* front, two in the middle and one at the end
Newlines(t, m) ==
    IF m = 0 THEN t
    ELSE IF m = 1
    THEN LET L == Len(t) + (Len(t) \div N)
         IN  [i \in 1 .. L |-> IF i % (N + 1) = 0 THEN NL ELSE t[i - (i \div (N + 1))]]
    ELSE LET h == Len(t) \div 2
         IN  <<NL>> \o SubSeq(t, 1, h) \o <<NL, NL>> \o SubSeq(t, h + 1, Len(t)) \o <<NL>>

Mid == 41

Texts ==
    {Newlines(Subst(Subst(Body(n), Mid, c2), p, c), m) :
        n \in Lens, p \in 0 .. (Cells + Slack), c \in Alphabet, c2 \in Second, m \in 0 .. 2}

Inputs == Texts \cup {TextOf(t, nl) : t \in TablesOne(Radix - 1), nl \in BOOLEAN}

---------------------------------------------------------------------------
(* The state machine *)

NoResult == [kind |-> "none", table |-> ZeroTable, details |-> <<>>]

Init ==
    /\ s \in Inputs
    /\ pc = "start"
    /\ res = NoResult
    /\ table = ZeroTable
    /\ debug = FALSE
    /\ stage = "idle"
    /\ row = 0 /\ col = 0 /\ block_row = 0 /\ block_col = 0
    /\ examined = <<>>
    /\ ret = "none"
    /\ out = <<>>

\* a Sudoku value held by the caller, whatever built it
InitTable ==
    /\ table \in TablesOne(MaxVal) \cup TablesTwo(MaxVal)
    /\ s = <<>>
    /\ pc = "parsed"
    /\ res = Ok(table)
    /\ debug = FALSE
    /\ stage = "idle"
    /\ row = 0 /\ col = 0 /\ block_row = 0 /\ block_col = 0
    /\ examined = <<>>
    /\ ret = "none"
    /\ out = <<>>

\* s.parse::<Sudoku>()
FromStr ==
    /\ pc = "start"
    /\ res' = from_str(s)
    /\ pc' = IF res'.kind = "Ok" THEN "parsed"
             ELSE IF res'.kind = "Err" THEN "failed" ELSE "panicked"
    /\ table' = res'.table
    /\ UNCHANGED <<s, debug, stage, row, col, block_row, block_col, examined, ret, out>>

\* the call of sudoku.valid(), in a build of either profile: only valid() has
\* arithmetic that the profile changes.  valid() and fmt() read the table
\* and change nothing, so a run makes one of the two calls.
Valid ==
    /\ pc = "parsed"
    /\ stage = "idle"
    /\ out = <<>>
    /\ debug' \in BOOLEAN
    /\ stage' = "rows"
    /\ row' = 0
    /\ UNCHANGED <<s, pc, res, table, col, block_row, block_col, examined, ret, out>>

\* one pass of the loop of lines 25-34
CheckRow ==
    /\ stage = "rows"
    /\ examined' = Append(examined, <<"row", row, 0>>)
    /\ LET o == GroupOutcome(table, RowCells(row), debug)
       IN  IF o = "pass"
           THEN /\ ret' = ret
                /\ IF row + 1 < N
                   THEN row' = row + 1 /\ stage' = stage /\ col' = col
                   ELSE row' = row /\ stage' = "cols" /\ col' = 0
           ELSE /\ ret' = o
                /\ stage' = "done"
                /\ UNCHANGED <<row, col>>
    /\ UNCHANGED <<s, pc, res, table, debug, block_row, block_col, out>>

\* one pass of the loop of lines 36-45
CheckCol ==
    /\ stage = "cols"
    /\ examined' = Append(examined, <<"col", col, 0>>)
    /\ LET o == GroupOutcome(table, ColCells(col), debug)
       IN  IF o = "pass"
           THEN /\ ret' = ret
                /\ IF col + 1 < N
                   THEN col' = col + 1 /\ stage' = stage
                        /\ UNCHANGED <<block_row, block_col>>
                   ELSE col' = col /\ stage' = "blocks"
                        /\ block_row' = 0 /\ block_col' = 0
           ELSE /\ ret' = o
                /\ stage' = "done"
                /\ UNCHANGED <<col, block_row, block_col>>
    /\ UNCHANGED <<s, pc, res, table, debug, row, out>>

\* one pass of the inner loop of lines 48-61
CheckBlock ==
    /\ stage = "blocks"
    /\ examined' = Append(examined, <<"block", block_row, block_col>>)
    /\ LET o == GroupOutcome(table, BlockCells(block_row, block_col), debug)
       IN  IF o = "pass"
           THEN /\ ret' = ret
                /\ IF block_col + 1 < B
                   THEN block_col' = block_col + 1 /\ block_row' = block_row
                        /\ stage' = stage
                   ELSE IF block_row + 1 < B
                   THEN block_col' = 0 /\ block_row' = block_row + 1
                        /\ stage' = stage
                   ELSE UNCHANGED <<block_row, block_col>> /\ stage' = "end"
           ELSE /\ ret' = o
                /\ stage' = "done"
                /\ UNCHANGED <<block_row, block_col>>
    /\ UNCHANGED <<s, pc, res, table, debug, row, col, out>>

\* line 62
ReturnTrue ==
    /\ stage = "end"
    /\ ret' = "true"
    /\ stage' = "done"
    /\ UNCHANGED <<s, pc, res, table, debug, row, col, block_row, block_col, examined, out>>

\* format!("{}", sudoku)
Fmt ==
    /\ pc = "parsed"
    /\ stage = "idle"
    /\ out = <<>>
    /\ out' = fmt(table)
    /\ UNCHANGED <<s, pc, res, table, debug, stage, row, col, block_row, block_col,
                   examined, ret>>

NextTable == Valid \/ CheckRow \/ CheckCol \/ CheckBlock \/ ReturnTrue \/ Fmt
Next == FromStr \/ NextTable

Spec == Init /\ [][Next]_vars
SpecTable == InitTable /\ [][NextTable]_vars

---------------------------------------------------------------------------
(* Vocabulary of the properties *)

Min(S) == CHOOSE x \in S : \A y \in S : x <= y

Digits == Zero .. (Zero + 9)
Blank == {SP, 9, 13}                    \* ' ' '\t' '\r'

\* the characters of a text that are not newlines
Kept(txt) == SelectSeq(txt, LAMBDA c : c # NL)
Remaining == Kept(s)
\* the 0-based indices of the characters of a text that are not digits
NonDigitsOf(txt) == {i \in 0 .. (Len(txt) - 1) : txt[i + 1] \notin Digits}
NonDigits == NonDigitsOf(Remaining)

Returned == pc # "start"

InRange(t) == \A r \in Idx, c \in Idx : t[r][c] \in 1 .. N

RowIsPerm(t, r) == {t[r][c] : c \in Idx} = 1 .. N
ColIsPerm(t, c) == {t[r][c] : r \in Idx} = 1 .. N
BlockIsPerm(t, br, bc) ==
    {t[r][c] : r \in (B * br) .. (B * br + B - 1), c \in (B * bc) .. (B * bc + B - 1)}
        = 1 .. N
IsSudoku(t) ==
    /\ \A r \in Idx : RowIsPerm(t, r)
    /\ \A c \in Idx : ColIsPerm(t, c)
    /\ \A br \in 0 .. (B - 1), bc \in 0 .. (B - 1) : BlockIsPerm(t, br, bc)

\* the 27 groups in the order of the claim
GroupAt(k) ==
    IF k <= N THEN <<"row", k - 1, 0>>
    ELSE IF k <= 2 * N THEN <<"col", k - N - 1, 0>>
    ELSE <<"block", (k - 2 * N - 1) \div B, (k - 2 * N - 1) % B>>
GroupIsPerm(t, k) ==
    IF k <= N THEN RowIsPerm(t, k - 1)
    ELSE IF k <= 2 * N THEN ColIsPerm(t, k - N - 1)
    ELSE BlockIsPerm(t, (k - 2 * N - 1) \div B, (k - 2 * N - 1) % B)
BadGroups(t) == {k \in 1 .. (3 * N) : ~GroupIsPerm(t, k)}

\* the text the formatter is to write for a value, a cell and a row
DigitsOf(v) ==
    IF v < 10 THEN <<Zero + v>>
    ELSE IF v < 100 THEN <<Zero + (v \div 10), Zero + (v % 10)>>
    ELSE <<Zero + (v \div 100), Zero + ((v \div 10) % 10), Zero + (v % 10)>>
CellText(v) == DigitsOf(v) \o <<SP>>
RowLine(rw) ==
    CellText(rw[0]) \o CellText(rw[1]) \o CellText(rw[2]) \o <<BAR, SP>>
    \o CellText(rw[3]) \o CellText(rw[4]) \o CellText(rw[5]) \o <<BAR, SP>>
    \o CellText(rw[6]) \o CellText(rw[7]) \o CellText(rw[8])
SeparatorLine == SubSeq(Separator, 1, Len(Separator) - 1)
NewlineAt(txt) == {i \in 1 .. Len(txt) : txt[i] = NL}
\* the end of the k-th line of txt, 0 for k = 0
LineEnd(txt, k) ==
    IF k = 0 THEN 0
    ELSE CHOOSE p \in NewlineAt(txt) : Cardinality({q \in NewlineAt(txt) : q < p}) = k - 1
Line(txt, k) == SubSeq(txt, LineEnd(txt, k - 1) + 1, LineEnd(txt, k) - 1)

\* the groups examined so far are the first ones of the order, and all but
\* the last of them passed
ExaminedInOrder ==
    /\ Len(examined) <= 3 * N
    /\ \A k \in 1 .. Len(examined) : examined[k] = GroupAt(k)
    /\ \A k \in 1 .. (Len(examined) - 1) : GroupIsPerm(table, k)

---------------------------------------------------------------------------
(* Properties *)

\* C1: on a table whose cells are all in 1..9, valid() returns true exactly
\* when every row, every column and every 3x3 block holds each of 1..9 once;
\* the cyclic table (rows and columns fine, blocks not) gives false.
ValidIffSudoku ==
    (stage = "done" /\ InRange(table)) =>
        /\ ret \in {"true", "false"}
        /\ (ret = "true") <=> IsSudoku(table)
        /\ ((\A i \in Idx : RowIsPerm(table, i) /\ ColIsPerm(table, i))
              /\ ~IsSudoku(table)) => ret = "false"

ValidIffSudoku_Witness ==
    stage = "done" /\ table = CyclicTable /\ ret = "false"

\* C2: on a table with a cell that is 0 or above 9, valid() returns false
\* and does not panic.
OutOfRangeIsFalse ==
    (stage = "done" /\ ~InRange(table)) => ret = "false"

\* C3: when s without its newlines is exactly 81 digits '0'..'9', from_str
\* succeeds and cell (i / 9, i % 9) is the value of the i-th digit.
DigitsParse ==
    Returned =>
        LET rem == Kept(s)
        IN  (Len(rem) = Cells /\ NonDigitsOf(rem) = {}) =>
                /\ pc = "parsed"
                /\ res.kind = "Ok"
                /\ \A i \in 0 .. (Cells - 1) :
                       table[i \div N][i % N] = rem[i + 1] - Zero

DigitsParse_Witness ==
    /\ pc = "parsed"
    /\ Len(Remaining) = Cells /\ NonDigits = {}
    /\ \E i \in 1 .. Len(s) : s[i] = NL
    /\ \E i \in 1 .. Len(s) : s[i] = Zero
    /\ table[0][0] # 0

\* C4: when s without its newlines has a number of characters other than
\* 81, from_str fails with the wrong-length error, whatever the characters.
WrongLengthByCharacters ==
    (Returned /\ Len(Kept(s)) # Cells) =>
        /\ pc = "failed"
        /\ res = Err(WrongLength)

\* C5: when s without its newlines has 81 characters, one of them not a
\* digit, from_str fails with the invalid-character error naming the first
\* such character and its row i / 9 and column i % 9.
InvalidCharacterAtFirst ==
    Returned =>
        LET rem == Kept(s)
            bad == NonDigitsOf(rem)
        IN  (Len(rem) = Cells /\ bad # {}) =>
                LET i == Min(bad)
                IN  /\ pc = "failed"
                    /\ res = Err(InvalidCharacter(rem[i + 1], i \div N, i % N))

\* C6: from_str returns Ok or Err for every input and never panics: the row
\* and column indices of every character iterated are within 0..8, and the
\* conversion to u8 never fails.
FromStrTotal ==
    /\ Returned =>
        /\ pc \in {"parsed", "failed"}
        /\ res.kind \in {"Ok", "Err"}
        /\ res.details # ConversionError
    /\ LET input == Replace(s)
       IN  LenOk(input) =>
               \A i \in 0 .. (Len(input) - 1) : RowOf(i) \in Idx /\ ColOf(i) \in Idx

FromStrTotal_Witness ==
    /\ pc = "failed"
    /\ StrLen(Remaining) = Cells
    /\ Len(Remaining) < Cells

\* C7: the formatted text is 11 lines, each ended by a newline: the 9 rows in
\* order with the line "------+-------+------" before rows 3 and 6 only; a
\* row is its 9 values in column order, each followed by a space, with "| "
\* before columns 3 and 6 only.
FmtLayout ==
    (out # <<>>) =>
        /\ Cardinality(NewlineAt(out)) = N + 2
        /\ out[Len(out)] = NL
        /\ Line(out, 4) = SeparatorLine
        /\ Line(out, 8) = SeparatorLine
        /\ \A r \in Idx : Line(out, r + 1 + (r \div B)) = RowLine(table[r])

FmtLayout_Witness ==
    /\ out # <<>>
    /\ \E r \in Idx, c \in Idx : table[r][c] >= Radix
    /\ \E r \in Idx, c \in Idx : table[r][c] = 0

\* C8: for a table obtained from the parser, the formatted text with every
\* character that is not a digit deleted (newlines kept or not) parses back
\* to the same table.
RoundTrip ==
    (out # <<>>) =>
        /\ from_str(SelectSeq(out, LAMBDA c : c \in Digits)) = Ok(table)
        /\ from_str(SelectSeq(out, LAMBDA c : c \in Digits \cup {NL})) = Ok(table)

RoundTrip_Witness ==
    /\ out # <<>>
    /\ s # <<>>
    /\ \E r \in Idx, c \in Idx : table[r][c] = 0
    /\ table # CyclicTable

\* C9: only '\n' is removed before the length check: a space, tab or
\* carriage return counts as a character and keeps its index, so 81 digits
\* and one of them give the wrong-length error, and 80 digits with one of
\* them at index i give the invalid-character error at row i / 9, col i % 9.
OnlyNewlineRemoved ==
    Returned =>
        LET rem == Kept(s)
            bad == NonDigitsOf(rem)
            oneBlank == Cardinality(bad) = 1 /\ \A i \in bad : rem[i + 1] \in Blank
        IN  /\ (Len(rem) = Cells + 1 /\ oneBlank) => res = Err(WrongLength)
            /\ (Len(rem) = Cells /\ oneBlank) =>
                   \A i \in bad : res = Err(InvalidCharacter(rem[i + 1], i \div N, i % N))
            /\ (\A i \in 1 .. Len(s) : s[i] < 128) =>
                   ((res = Err(WrongLength)) <=> (Len(rem) # Cells))

OnlyNewlineRemoved_Witness ==
    /\ pc = "failed"
    /\ Len(Remaining) = Cells
    /\ Cardinality(NonDigits) = 1
    /\ \E i \in NonDigits : i > N /\ Remaining[i + 1] = 13
    /\ \E i \in 1 .. Len(s) : s[i] = NL

\* C10: valid() examines rows 0..8, then columns 0..8, then blocks (0,0) ..
\* (2,2); it returns false at the first group that is not a permutation of
\* 1..9 and examines none after it; it returns true only after all 27 groups
\* were examined and passed.
ValidOrder ==
    /\ ExaminedInOrder
    /\ stage = "done" =>
           IF BadGroups(table) = {}
           THEN ret = "true" /\ Len(examined) = 3 * N
           ELSE ret = "false" /\ Len(examined) = Min(BadGroups(table))

====
